---- MODULE Spec2Model ----
(***************************************************************************)
(* The label notebook xx_1_Machine_Learning_Labels.ipynb as a state        *)
(* machine: a SQLite store with a persistent (main) and a per-connection   *)
(* (temp) schema, the hard-coded label cells run in order, the function    *)
(* create_labels called on the open connection, and the closing cell.      *)
(*                                                                         *)
(* Text values are sequences of character codes (ASCII), compared the way  *)
(* SQLite compares TEXT under the BINARY collation.  SQL NULL is the empty *)
(* sequence: date() never yields the empty string, so the two do not meet. *)
(***************************************************************************)
EXTENDS Integers, Sequences, FiniteSets, TLC

VARIABLES main, temp, pc, raised, label_2009_2013, calls, df_label,
          prevMain, prevTemp, prevLabel

vars == <<main, temp, pc, raised, label_2009_2013, calls, df_label,
          prevMain, prevTemp, prevLabel>>

(***************************************************************************)
(* Bounds of the model.                                                    *)
(***************************************************************************)
MaxRows == 2

MaxCalls == 2

(***************************************************************************)
(* Text, numbers and dates.                                                *)
(***************************************************************************)
NULL == <<>>

IsDigit(c) == c >= 48 /\ c <= 57

Min2(a, b) == IF a <= b THEN a ELSE b

\* memcmp over the common prefix, then the shorter text sorts first
TextLT(a, b) ==
    \/ \E i \in 1..Min2(Len(a), Len(b)) :
          /\ a[i] < b[i]
          /\ \A j \in 1..(i - 1) : a[j] = b[j]
    \/ /\ Len(a) < Len(b)
       /\ \A j \in 1..Len(a) : a[j] = b[j]

TextLE(a, b) == a = b \/ TextLT(a, b)

\* a comparison with NULL is NULL, which a WHERE clause treats as false
SqlGE(v, lit) == v # NULL /\ TextLE(lit, v)

SqlLE(v, lit) == v # NULL /\ TextLE(v, lit)

RECURSIVE NumVal(_)
NumVal(s) ==
    IF s = <<>> THEN 0
    ELSE 10 * NumVal(SubSeq(s, 1, Len(s) - 1)) + (s[Len(s)] - 48)

RECURSIVE Pad(_, _)
Pad(n, w) == IF w = 0 THEN <<>> ELSE Pad(n \div 10, w - 1) \o <<48 + (n % 10)>>

IsoText(d) == Pad(d[1], 4) \o <<45>> \o Pad(d[2], 2) \o <<45>> \o Pad(d[3], 2)

IsLeap(y) == (y % 4 = 0 /\ y % 100 # 0) \/ y % 400 = 0

DaysInMonth(y, m) ==
    IF m = 2 THEN (IF IsLeap(y) THEN 29 ELSE 28)
    ELSE IF m \in {4, 6, 9, 11} THEN 30 ELSE 31

\* SQLite's date(): the text must read YYYY-MM-DD with month 1..12 and day
\* 1..31; a day past the end of the month rolls into the next month; anything
\* else, and NULL, gives NULL.
SqlDate(raw) ==
    IF /\ Len(raw) = 10
       /\ \A i \in {1, 2, 3, 4, 6, 7, 9, 10} : IsDigit(raw[i])
       /\ raw[5] = 45 /\ raw[8] = 45
    THEN LET y == NumVal(SubSeq(raw, 1, 4))
             m == NumVal(SubSeq(raw, 6, 7))
             d == NumVal(SubSeq(raw, 9, 10))
         IN  IF m < 1 \/ m > 12 \/ d < 1 \/ d > 31 THEN NULL
             ELSE IF d <= DaysInMonth(y, m) THEN IsoText(<<y, m, d>>)
             ELSE IF m = 12 THEN IsoText(<<y + 1, 1, d - DaysInMonth(y, m)>>)
             ELSE IsoText(<<y, m + 1, d - DaysInMonth(y, m)>>)
    ELSE NULL

RECURSIVE DigitPrefix(_)
DigitPrefix(s) ==
    IF s = <<>> \/ ~IsDigit(s[1]) THEN <<>>
    ELSE <<s[1]>> \o DigitPrefix(Tail(s))

\* SQLite's CAST(text AS INTEGER): the longest leading run of digits, 0 if none
CastInteger(s) == NumVal(DigitPrefix(s))

\* dateutil's parse(s, fuzzy = True) on the year-first numeric forms
\* YYYY-MM-DD and YYYY/MM/DD
ParseDate(s) ==
    <<NumVal(SubSeq(s, 1, 4)), NumVal(SubSeq(s, 6, 7)), NumVal(SubSeq(s, 9, 10))>>

ParseYear(s) == ParseDate(s)[1]

(***************************************************************************)
(* The store: a schema maps the names of its tables to their rows.         *)
(***************************************************************************)
EmptySchema == [n \in {} |-> <<>>]

Without(schema, name) == [n \in (DOMAIN schema) \ {name} |-> schema[n]]

With(schema, name, rows) ==
    [n \in (DOMAIN schema) \cup {name} |-> IF n = name THEN rows ELSE schema[n]]

\* an unqualified name resolves to the temp schema first
From(db, name) == IF name \in DOMAIN db.temp THEN db.temp[name] ELSE db.main[name]

\* the script without its "drop table if exists" statements
KeepTable(db, name) == db

\* drop table if exists <name>; a statement after a failed one is not run
DropTable(db, name) ==
    IF db.err THEN db
    ELSE [main |-> IF name \in DOMAIN db.temp THEN db.main ELSE Without(db.main, name),
          temp |-> Without(db.temp, name),
          err  |-> FALSE]

\* create table <name> as <rows>: fails when main holds the name already
CreateTable(db, name, rows) ==
    IF db.err THEN db
    ELSE IF name \in DOMAIN db.main THEN [db EXCEPT !.err = TRUE]
    ELSE [db EXCEPT !.main = With(@, name, rows)]

\* "create table" where the script says "create temp table"
CreatePersistent(db, name, rows) == CreateTable(db, name, rows)

\* create temp table <name> as <rows>: fails when temp holds the name already
CreateTempTable(db, name, rows) ==
    IF db.err THEN db
    ELSE IF name \in DOMAIN db.temp THEN [db EXCEPT !.err = TRUE]
    ELSE [db EXCEPT !.temp = With(@, name, rows)]

(***************************************************************************)
(* The queries.                                                            *)
(***************************************************************************)
SentencesPrepRows(src) ==
    [i \in 1..Len(src) |->
        [inmate_doc_number   |-> src[i].inmate_doc_number,
         sentence_component  |-> CastInteger(src[i].inmate_sentence_component),
         sentence_begin_date |-> SqlDate(src[i].sentence_begin_date_for_max),
         sentence_end_date   |-> SqlDate(src[i].actual_sentence_end_date)]]

\* the release window with "<" for "<=" at its end
ReleaseDatesRowsExclusive(prep, lo, hi) ==
    LET InWindow(r) ==
            /\ SqlGE(r.sentence_end_date, lo)
            /\ SqlLE(r.sentence_end_date, hi)
            /\ r.sentence_end_date # hi
        kept == SelectSeq(prep, InWindow)
    IN  [i \in 1..Len(kept) |->
            [inmate_doc_number |-> kept[i].inmate_doc_number,
             sentence_end_date |-> kept[i].sentence_end_date]]

ReleaseDatesRows(prep, lo, hi) ==
    LET InWindow(r) == SqlGE(r.sentence_end_date, lo) /\ SqlLE(r.sentence_end_date, hi)
        kept == SelectSeq(prep, InWindow)
    IN  [i \in 1..Len(kept) |->
            [inmate_doc_number |-> kept[i].inmate_doc_number,
             sentence_end_date |-> kept[i].sentence_end_date]]

RECURSIVE Ascending(_)
Ascending(S) ==
    IF S = {} THEN <<>>
    ELSE LET least == CHOOSE x \in S : \A y \in S : x <= y
         IN  <<least>> \o Ascending(S \ {least})

\* min(sentence_end_date) for max(sentence_end_date)
MinText(T) == CHOOSE x \in T : \A y \in T : TextLE(x, y)

MaxText(T) == CHOOSE x \in T : \A y \in T : TextLE(y, x)

\* select inmate_doc_number, max(sentence_end_date) ... group by inmate_doc_number
LastExitRows(rel) ==
    LET ids == Ascending({rel[i].inmate_doc_number : i \in 1..Len(rel)})
        EndDates(id) == {rel[i].sentence_end_date :
                            i \in {k \in 1..Len(rel) : rel[k].inmate_doc_number = id}}
    IN  [i \in 1..Len(ids) |->
            [inmate_doc_number |-> ids[i],
             sentence_end_date |-> MaxText(EndDates(ids[i]))]]

\* the admission query without "and sentence_component = 1"
AdmitRowsAnyComponent(prep, lo, hi) ==
    LET InWindow(r) == /\ SqlGE(r.sentence_begin_date, lo)
                       /\ SqlLE(r.sentence_begin_date, hi)
        kept == SelectSeq(prep, InWindow)
    IN  [i \in 1..Len(kept) |->
            [inmate_doc_number   |-> kept[i].inmate_doc_number,
             sentence_component  |-> kept[i].sentence_component,
             sentence_begin_date |-> kept[i].sentence_begin_date]]

\* the admission query without "sentence_begin_date >= prediction_start"
AdmitRowsNoStart(prep, lo, hi) ==
    LET InWindow(r) == /\ SqlLE(r.sentence_begin_date, hi)
                       /\ r.sentence_component = 1
        kept == SelectSeq(prep, InWindow)
    IN  [i \in 1..Len(kept) |->
            [inmate_doc_number   |-> kept[i].inmate_doc_number,
             sentence_component  |-> kept[i].sentence_component,
             sentence_begin_date |-> kept[i].sentence_begin_date]]

AdmitRows(prep, lo, hi) ==
    LET InWindow(r) == /\ SqlGE(r.sentence_begin_date, lo)
                       /\ SqlLE(r.sentence_begin_date, hi)
                       /\ r.sentence_component = 1
        kept == SelectSeq(prep, InWindow)
    IN  [i \in 1..Len(kept) |->
            [inmate_doc_number   |-> kept[i].inmate_doc_number,
             sentence_component  |-> kept[i].sentence_component,
             sentence_begin_date |-> kept[i].sentence_begin_date]]

\* case when a.sentence_begin_date is null then 0 else 1 end
Flag(begin) == IF begin = NULL THEN 0 ELSE 1

\* last_exit r left join admit a on r.inmate_doc_number = a.inmate_doc_number
RECURSIVE RecidivismRows(_, _)
RecidivismRows(last, admit) ==
    IF last = <<>> THEN <<>>
    ELSE LET r == Head(last)
             Same(a) == a.inmate_doc_number = r.inmate_doc_number
             matched == SelectSeq(admit, Same)
             joined ==
                 IF matched = <<>>
                 THEN <<[inmate_doc_number   |-> r.inmate_doc_number,
                         sentence_end_date   |-> r.sentence_end_date,
                         sentence_begin_date |-> NULL,
                         recidivism          |-> Flag(NULL)]>>
                 ELSE [j \in 1..Len(matched) |->
                         [inmate_doc_number   |-> r.inmate_doc_number,
                          sentence_end_date   |-> r.sentence_end_date,
                          sentence_begin_date |-> matched[j].sentence_begin_date,
                          recidivism          |-> Flag(matched[j].sentence_begin_date)]]
         IN  joined \o RecidivismRows(Tail(last), admit)

\* select distinct: the first occurrence of every row, in order
RECURSIVE Distinct(_)
Distinct(rows) ==
    IF rows = <<>> THEN <<>>
    ELSE LET init == SubSeq(rows, 1, Len(rows) - 1)
             last == rows[Len(rows)]
         IN  IF \E i \in 1..Len(init) : init[i] = last
             THEN Distinct(init)
             ELSE Distinct(init) \o <<last>>

\* "select" for "select distinct"
LabelRowsWithDuplicates(rec) ==
    [i \in 1..Len(rec) |->
        [inmate_doc_number |-> rec[i].inmate_doc_number,
         recidivism        |-> rec[i].recidivism]]

LabelRows(rec) ==
    Distinct([i \in 1..Len(rec) |->
                [inmate_doc_number |-> rec[i].inmate_doc_number,
                 recidivism        |-> rec[i].recidivism]])

(***************************************************************************)
(* The contents of the sentences relation and the arguments of a call.     *)
(***************************************************************************)
SlashText(d) == Pad(d[1], 4) \o <<47>> \o Pad(d[2], 2) \o <<47>> \o Pad(d[3], 2)

\* "0000-00-00": a date field that date() does not accept
BadDate == <<48, 48, 48, 48, 45, 48, 48, 45, 48, 48>>

DocNumbers == {1, 2}

\* "001" and "002"
Components == {<<48, 48, 49>>, <<48, 48, 50>>}

BeginDates == {IsoText(<<2009, 1, 1>>), IsoText(<<2013, 12, 31>>)}

EndDates == {IsoText(<<1999, 12, 31>>), IsoText(<<2008, 12, 31>>),
             IsoText(<<2009, 1, 1>>), BadDate}

SentenceRows ==
    [inmate_doc_number : DocNumbers,
     inmate_sentence_component : Components,
     sentence_begin_date_for_max : BeginDates,
     actual_sentence_end_date : EndDates]

SentenceTables == UNION {[1..n -> SentenceRows] : n \in 0..MaxRows}

FeaturesEnds ==
    {IsoText(<<1999, 12, 31>>), IsoText(<<2008, 12, 31>>), IsoText(<<2013, 12, 31>>)}

PredictionStarts ==
    {IsoText(<<2009, 1, 1>>), SlashText(<<2009, 1, 1>>), IsoText(<<2014, 1, 1>>)}

PredictionEnds == {IsoText(<<2013, 12, 31>>), IsoText(<<2018, 12, 31>>)}

CallArgs ==
    [features_end : FeaturesEnds,
     prediction_start : PredictionStarts,
     prediction_end : PredictionEnds]

(***************************************************************************)
(* The hard-coded cells.                                                   *)
(***************************************************************************)
Db == [main |-> main, temp |-> temp, err |-> FALSE]

\* '2000-01-01', '2008-12-31', '2009-01-01', '2013-12-31'
Text_2000_01_01 == <<50, 48, 48, 48, 45, 48, 49, 45, 48, 49>>

Text_2008_12_31 == <<50, 48, 48, 56, 45, 49, 50, 45, 51, 49>>

Text_2009_01_01 == <<50, 48, 48, 57, 45, 48, 49, 45, 48, 49>>

Text_2013_12_31 == <<50, 48, 49, 51, 45, 49, 50, 45, 51, 49>>

\* an exception in a cell stops the run of the notebook
Run(db, next) ==
    \E d \in {db} :
        /\ main' = d.main
        /\ temp' = d.temp
        /\ raised' = d.err
        /\ pc' = IF d.err THEN "stopped" ELSE next
        /\ UNCHANGED <<calls, df_label, prevMain, prevTemp, prevLabel>>

CellSentencesPrep ==
    /\ pc = "sentences_prep"
    /\ LET d == DropTable(Db, "sentences_prep")
       IN  Run(CreateTable(d, "sentences_prep",
                           SentencesPrepRows(From(d, "sentences"))),
               "release_dates")
    /\ UNCHANGED label_2009_2013

CellReleaseDates ==
    /\ pc = "release_dates"
    /\ LET d == DropTable(Db, "release_dates_2000_2008")
       IN  Run(CreateTempTable(d, "release_dates_2000_2008",
                   ReleaseDatesRows(From(d, "sentences_prep"),
                                    Text_2000_01_01, Text_2008_12_31)),
               "last_exit")
    /\ UNCHANGED label_2009_2013

CellLastExit ==
    /\ pc = "last_exit"
    /\ LET d == DropTable(Db, "last_exit_2000_2008")
       IN  Run(CreateTempTable(d, "last_exit_2000_2008",
                   LastExitRows(From(d, "release_dates_2000_2008"))),
               "admit")
    /\ UNCHANGED label_2009_2013

CellAdmit ==
    /\ pc = "admit"
    /\ LET d == DropTable(Db, "admit_2009_2013")
       IN  Run(CreateTempTable(d, "admit_2009_2013",
                   AdmitRows(From(d, "sentences_prep"),
                             Text_2009_01_01, Text_2013_12_31)),
               "recidivism")
    /\ UNCHANGED label_2009_2013

CellRecidivism ==
    /\ pc = "recidivism"
    /\ LET d == DropTable(Db, "recidivism_2009_2013")
       IN  Run(CreateTempTable(d, "recidivism_2009_2013",
                   RecidivismRows(From(d, "last_exit_2000_2008"),
                                  From(d, "admit_2009_2013"))),
               "recidivism_labels")
    /\ UNCHANGED label_2009_2013

CellRecidivismLabels ==
    /\ pc = "recidivism_labels"
    /\ LET d == DropTable(Db, "recidivism_labels_2009_2013")
       IN  Run(CreateTable(d, "recidivism_labels_2009_2013",
                   LabelRows(From(d, "recidivism_2009_2013"))),
               "read_labels")
    /\ UNCHANGED label_2009_2013

\* label_2009_2013 = pd.read_sql(...)
CellReadLabels ==
    /\ pc = "read_labels"
    /\ label_2009_2013' = From(Db, "recidivism_labels_2009_2013")
    /\ pc' = "open"
    /\ UNCHANGED <<main, temp, raised, calls, df_label, prevMain, prevTemp, prevLabel>>

(***************************************************************************)
(* create_labels.                                                          *)
(***************************************************************************)
ReleaseDatesName(end_x_year) == "release_dates_2000_" \o ToString(end_x_year)

LastExitName(end_x_year) == "last_exit_2000_" \o ToString(end_x_year)

\* the two years of the name in the other order
AdmitNameSwapped(start_y_year, end_y_year) ==
    "admit_" \o ToString(end_y_year) \o "_" \o ToString(start_y_year)

AdmitName(start_y_year, end_y_year) ==
    "admit_" \o ToString(start_y_year) \o "_" \o ToString(end_y_year)

RecidivismName(start_y_year, end_y_year) ==
    "recidivism_" \o ToString(start_y_year) \o "_" \o ToString(end_y_year)

\* the label table named after the end year alone
LabelsNameByEndYear(start_y_year, end_y_year) ==
    "recidivism_labels_" \o ToString(end_y_year)

LabelsName(start_y_year, end_y_year) ==
    "recidivism_labels_" \o ToString(start_y_year) \o "_" \o ToString(end_y_year)

\* the table that create_labels reads back for these arguments
LabelsNameOf(a) == LabelsName(ParseYear(a.prediction_start), ParseYear(a.prediction_end))

\* cur.executescript(sql_script): the store after the whole script
ExecuteScript(db, features_end, prediction_start, prediction_end) ==
    LET end_x_year   == ParseYear(features_end)
        start_y_year == ParseYear(prediction_start)
        end_y_year   == ParseYear(prediction_end)
        d0 == DropTable(db, "sentences_prep")
        d1 == CreateTable(d0, "sentences_prep",
                          SentencesPrepRows(From(d0, "sentences")))
        d2 == DropTable(d1, ReleaseDatesName(end_x_year))
        d3 == CreateTempTable(d2, ReleaseDatesName(end_x_year),
                  ReleaseDatesRows(From(d2, "sentences_prep"),
                                   Text_2000_01_01, features_end))
        d4 == DropTable(d3, LastExitName(end_x_year))
        d5 == CreateTempTable(d4, LastExitName(end_x_year),
                  LastExitRows(From(d4, ReleaseDatesName(end_x_year))))
        d6 == DropTable(d5, AdmitName(start_y_year, end_y_year))
        d7 == CreateTempTable(d6, AdmitName(start_y_year, end_y_year),
                  AdmitRows(From(d6, "sentences_prep"),
                            prediction_start, prediction_end))
        d8 == DropTable(d7, RecidivismName(start_y_year, end_y_year))
        d9 == CreateTempTable(d8, RecidivismName(start_y_year, end_y_year),
                  RecidivismRows(From(d8, LastExitName(end_x_year)),
                                 From(d8, AdmitName(start_y_year, end_y_year))))
        d10 == DropTable(d9, LabelsName(start_y_year, end_y_year))
    IN  CreateTable(d10, LabelsName(start_y_year, end_y_year),
                    LabelRows(From(d10, RecidivismName(start_y_year, end_y_year))))

\* the data frame create_labels returns for a store
CreateLabelsResult(db, a) ==
    From(ExecuteScript(db, a.features_end, a.prediction_start, a.prediction_end),
         LabelsNameOf(a))

\* label_2014_2018 = create_labels('2013-12-31', '2014-01-01', '2018-12-31', conn)
NotebookCall ==
    [features_end     |-> Text_2013_12_31,
     prediction_start |-> <<50, 48, 49, 52, 45, 48, 49, 45, 48, 49>>,
     prediction_end   |-> <<50, 48, 49, 56, 45, 49, 50, 45, 51, 49>>]

CreateLabels(a) ==
    /\ pc = "open"
    /\ Len(calls) < MaxCalls
    /\ \E d \in {ExecuteScript(Db, a.features_end, a.prediction_start, a.prediction_end)} :
           /\ main' = d.main
           /\ temp' = d.temp
           /\ raised' = d.err
           /\ df_label' = IF d.err THEN df_label ELSE From(d, LabelsNameOf(a))
    /\ calls' = Append(calls, a)
    /\ prevMain' = main
    /\ prevTemp' = temp
    /\ prevLabel' = df_label
    /\ UNCHANGED <<pc, label_2009_2013>>

\* cur.close(); conn.close(): the temp schema goes with the connection
Close ==
    /\ pc = "open"
    /\ pc' = "closed"
    /\ temp' = EmptySchema
    /\ UNCHANGED <<main, raised, label_2009_2013, calls, df_label,
                   prevMain, prevTemp, prevLabel>>

Init ==
    /\ \E rows \in SentenceTables : main = [n \in {"sentences"} |-> rows]
    /\ temp = EmptySchema
    /\ pc = "sentences_prep"
    /\ raised = FALSE
    /\ label_2009_2013 = <<>>
    /\ calls = <<>>
    /\ df_label = <<>>
    /\ prevMain = EmptySchema
    /\ prevTemp = EmptySchema
    /\ prevLabel = <<>>

Next ==
    \/ CellSentencesPrep
    \/ CellReleaseDates
    \/ CellLastExit
    \/ CellAdmit
    \/ CellRecidivism
    \/ CellRecidivismLabels
    \/ CellReadLabels
    \/ \E a \in CallArgs : CreateLabels(a)
    \/ Close

Spec == Init /\ [][Next]_vars

(***************************************************************************)
(* Vocabulary of the properties.                                           *)
(***************************************************************************)
Rows(t) == {t[i] : i \in 1..Len(t)}

\* the connection is open and the latest create_labels call has returned
Returned == pc = "open" /\ calls # <<>> /\ ~raised

\* the hard-coded cells up to and including the one named have run, and no
\* create_labels call has replaced their tables yet
HardCodedLastExit ==
    \/ pc \in {"admit", "recidivism", "recidivism_labels", "read_labels"}
    \/ pc = "open" /\ calls = <<>>

HardCodedLabels == pc = "read_labels" \/ (pc = "open" /\ calls = <<>>)

Last == calls[Len(calls)]

LastReleaseDates == temp[ReleaseDatesName(ParseYear(Last.features_end))]

LastLastExit == temp[LastExitName(ParseYear(Last.features_end))]

LastAdmit ==
    temp[AdmitName(ParseYear(Last.prediction_start), ParseYear(Last.prediction_end))]

LastRecidivism ==
    temp[RecidivismName(ParseYear(Last.prediction_start), ParseYear(Last.prediction_end))]

LastLabels == main[LabelsNameOf(Last)]

HasRow(t, id) == \E r \in Rows(t) : r.inmate_doc_number = id

LabelsOf(t, id) == {r.recidivism : r \in {x \in Rows(t) : x.inmate_doc_number = id}}

\* calendar order on the dates that canonical texts denote
DateLE(d, e) ==
    \/ d[1] < e[1]
    \/ d[1] = e[1] /\ d[2] < e[2]
    \/ d[1] = e[1] /\ d[2] = e[2] /\ d[3] <= e[3]

DateLT(d, e) == DateLE(d, e) /\ d # e

NextDay(d) ==
    IF d[3] < DaysInMonth(d[1], d[2]) THEN <<d[1], d[2], d[3] + 1>>
    ELSE IF d[2] < 12 THEN <<d[1], d[2] + 1, 1>>
    ELSE <<d[1] + 1, 1, 1>>

IsCanonical(s) == IsoText(ParseDate(s)) = s

\* a value lies in [lo, hi] in the order in which the store compares them
Within(v, lo, hi) == v # NULL /\ TextLE(lo, v) /\ TextLE(v, hi)

(***************************************************************************)
(* C1                                                                      *)
(***************************************************************************)
Readmitted(id, a) ==
    \E r \in Rows(main["sentences_prep"]) :
        /\ r.inmate_doc_number = id
        /\ r.sentence_component = 1
        /\ Within(r.sentence_begin_date, a.prediction_start, a.prediction_end)

OneRowPerIndividual(last, rec, labels) ==
    /\ \A i, j \in 1..Len(labels) :
          labels[i].inmate_doc_number = labels[j].inmate_doc_number => i = j
    /\ \A id \in DocNumbers :
          Cardinality({i \in 1..Len(labels) : labels[i].inmate_doc_number = id})
              = IF HasRow(last, id) THEN 1 ELSE 0
    /\ Rows(labels) = {[inmate_doc_number |-> r.inmate_doc_number,
                        recidivism |-> r.recidivism] : r \in Rows(rec)}

\* C2: after the hard-coded label cell and after every create_labels call the
\* label table holds no two rows with the same inmate_doc_number, exactly one
\* row for every individual of last_exit, and the (individual, label) pairs of
\* the joined table, no more and no fewer.
C2_OneRowPerIndividual ==
    /\ HardCodedLabels =>
          OneRowPerIndividual(temp["last_exit_2000_2008"],
                              temp["recidivism_2009_2013"],
                              main["recidivism_labels_2009_2013"])
    /\ Returned =>
          /\ OneRowPerIndividual(LastLastExit, LastRecidivism, LastLabels)
          /\ df_label = LastLabels

C2_Witness ==
    /\ Returned
    /\ Len(LastRecidivism) > Len(df_label)
    /\ \E id \in DocNumbers : LabelsOf(df_label, id) = {1}

(***************************************************************************)
(* C3                                                                      *)
(***************************************************************************)
LatestRelease(prep, rel, last, hi) ==
    \A id \in DocNumbers :
        LET mine == {i \in 1..Len(last) : last[i].inmate_doc_number = id}
            released ==
                \E r \in Rows(prep) :
                    /\ r.inmate_doc_number = id
                    /\ Within(r.sentence_end_date, IsoText(<<2000, 1, 1>>), hi)
        IN  IF released
            THEN /\ Cardinality(mine) = 1
                 /\ \A i \in mine :
                       /\ \E r \in Rows(rel) :
                             /\ r.inmate_doc_number = id
                             /\ r.sentence_end_date = last[i].sentence_end_date
                       /\ \A r \in Rows(rel) :
                             r.inmate_doc_number = id =>
                                 DateLE(ParseDate(r.sentence_end_date),
                                        ParseDate(last[i].sentence_end_date))
            ELSE mine = {}

\* C3: last_exit holds exactly one row for every individual with a sentence
\* end date in the release window, carrying the latest of that individual's
\* end dates in release_dates, and no row for anybody else; in the hard-coded
\* cells (window up to 2008-12-31) and after every create_labels call (window
\* up to features_end).
C3_LatestRelease ==
    /\ HardCodedLastExit =>
          LatestRelease(main["sentences_prep"], temp["release_dates_2000_2008"],
                        temp["last_exit_2000_2008"], IsoText(<<2008, 12, 31>>))
    /\ Returned =>
          LatestRelease(main["sentences_prep"], LastReleaseDates, LastLastExit,
                        Last.features_end)

C3_Witness ==
    /\ Returned
    /\ \E r, q \in Rows(LastReleaseDates) :
          /\ r.inmate_doc_number = q.inmate_doc_number
          /\ r.sentence_end_date # q.sentence_end_date
    /\ Len(LastLastExit) = 1

(***************************************************************************)
(* C4                                                                      *)
(***************************************************************************)
ReleaseRow(r) ==
    [inmate_doc_number |-> r.inmate_doc_number,
     sentence_end_date |-> r.sentence_end_date]

AdmitRow(r) ==
    [inmate_doc_number   |-> r.inmate_doc_number,
     sentence_component  |-> r.sentence_component,
     sentence_begin_date |-> r.sentence_begin_date]

\* a record that ends exactly on features_end is in release_dates
EndDayIncluded(guarded) ==
    \A r \in Rows(main["sentences_prep"]) :
        /\ r.sentence_end_date = Last.features_end
        /\ guarded => TextLE(IsoText(<<2000, 1, 1>>), Last.features_end)
        => ReleaseRow(r) \in Rows(LastReleaseDates)

\* a record that ends on the day after features_end is not
DayAfterExcluded ==
    \A r \in Rows(main["sentences_prep"]) :
        /\ IsCanonical(Last.features_end)
        /\ r.sentence_end_date = IsoText(NextDay(ParseDate(Last.features_end)))
        => ReleaseRow(r) \notin Rows(LastReleaseDates)

\* an admission that begins exactly on prediction_start or prediction_end is
\* in admit
BoundaryAdmissionsIncluded(guarded) ==
    \A r \in Rows(main["sentences_prep"]) :
        /\ r.sentence_component = 1
        /\ r.sentence_begin_date \in {Last.prediction_start, Last.prediction_end}
        /\ guarded => TextLE(Last.prediction_start, Last.prediction_end)
        => AdmitRow(r) \in Rows(LastAdmit)

\* C4 as stated: for every features_end, prediction_start and prediction_end
\* the record dated on the boundary is included and the record dated one day
\* after features_end is excluded.
C4_AsStated ==
    Returned =>
        /\ EndDayIncluded(FALSE)
        /\ DayAfterExcluded
        /\ BoundaryAdmissionsIncluded(FALSE)

\* C4, amended: the record whose end date is the features_end passed is
\* included when features_end is not before the fixed lower bound 2000-01-01;
\* the record that ends one day after a features_end written YYYY-MM-DD is
\* excluded; an admission whose begin date is the prediction_start or the
\* prediction_end passed is included when prediction_start is not after
\* prediction_end.
C4_InclusiveBounds ==
    Returned =>
        /\ EndDayIncluded(TRUE)
        /\ DayAfterExcluded
        /\ BoundaryAdmissionsIncluded(TRUE)

C4_Witness ==
    /\ Returned
    /\ TextLE(IsoText(<<2000, 1, 1>>), Last.features_end)
    /\ TextLE(Last.prediction_start, Last.prediction_end)
    /\ IsCanonical(Last.features_end)
    /\ \E r \in Rows(main["sentences_prep"]) :
          /\ r.sentence_end_date = Last.features_end
          /\ ReleaseRow(r) \in Rows(LastReleaseDates)
    /\ \E r \in Rows(main["sentences_prep"]) :
          /\ r.sentence_end_date = IsoText(NextDay(ParseDate(Last.features_end)))
          /\ ReleaseRow(r) \notin Rows(LastReleaseDates)
    /\ \E r \in Rows(main["sentences_prep"]) :
          /\ r.sentence_component = 1
          /\ r.sentence_begin_date = Last.prediction_start
          /\ AdmitRow(r) \in Rows(LastAdmit)

(***************************************************************************)
(* C5                                                                      *)
(***************************************************************************)
\* the same three dates, each written YYYY-MM-DD
Canonical(a) ==
    [features_end     |-> IsoText(ParseDate(a.features_end)),
     prediction_start |-> IsoText(ParseDate(a.prediction_start)),
     prediction_end   |-> IsoText(ParseDate(a.prediction_end))]

\* C5: the frame a create_labels call returns is the frame the same call
\* returns, on the same store, when each boundary is written in another way
\* that denotes the same date (here: YYYY-MM-DD).
C5_FormatIndependent ==
    (calls # <<>> /\ ~raised) =>
        df_label = CreateLabelsResult([main |-> prevMain, temp |-> prevTemp, err |-> FALSE],
                                      Canonical(Last))

(***************************************************************************)
(* C6                                                                      *)
(***************************************************************************)
LabelYears(a) == <<ParseYear(a.prediction_start), ParseYear(a.prediction_end)>>

\* the latest call wrote to another label table than call i did and left the
\* label table of call i as it was
LeftAlone(i) ==
    /\ LabelsNameOf(calls[i]) # LabelsNameOf(Last)
    /\ LabelsNameOf(calls[i]) \in DOMAIN prevMain \cap DOMAIN main
    /\ main[LabelsNameOf(calls[i])] = prevMain[LabelsNameOf(calls[i])]

\* C6 as stated: a call whose (features_end, prediction_start, prediction_end)
\* differs from that of an earlier call writes to a different label table and
\* leaves the earlier call's label table as it was.
C6_AsStated ==
    (calls # <<>> /\ ~raised) =>
        \A i \in 1..(Len(calls) - 1) : calls[i] # Last => LeftAlone(i)

\* C6, amended: a call whose prediction_start year or prediction_end year
\* differs from that of an earlier call writes to a different label table and
\* leaves the earlier call's label table as it was.
C6_DistinctYears ==
    (calls # <<>> /\ ~raised) =>
        \A i \in 1..(Len(calls) - 1) :
            LabelYears(calls[i]) # LabelYears(Last) => LeftAlone(i)

C6_Witness ==
    /\ Len(calls) >= 2
    /\ ~raised
    /\ LabelYears(calls[Len(calls) - 1]) # LabelYears(Last)
    /\ main[LabelsNameOf(calls[Len(calls) - 1])] # <<>>
    /\ main[LabelsNameOf(calls[Len(calls) - 1])] # df_label

(***************************************************************************)
(* C7                                                                      *)
(***************************************************************************)
NotebookDone == pc = "closed" /\ calls = <<NotebookCall>>

\* every relation of the latest call is what its query yields on the store as
\* it is now, whatever an earlier cell or call left under the same name
Recomputed ==
    LET end_x_year   == ParseYear(Last.features_end)
        start_y_year == ParseYear(Last.prediction_start)
        end_y_year   == ParseYear(Last.prediction_end)
        Table(name)  == From(Db, name)
    IN  /\ Table("sentences_prep") = SentencesPrepRows(Table("sentences"))
        /\ Table(ReleaseDatesName(end_x_year)) =
               ReleaseDatesRows(Table("sentences_prep"), IsoText(<<2000, 1, 1>>),
                                Last.features_end)
        /\ Table(LastExitName(end_x_year)) =
               LastExitRows(Table(ReleaseDatesName(end_x_year)))
        /\ Table(AdmitName(start_y_year, end_y_year)) =
               AdmitRows(Table("sentences_prep"), Last.prediction_start,
                         Last.prediction_end)
        /\ Table(RecidivismName(start_y_year, end_y_year)) =
               RecidivismRows(Table(LastExitName(end_x_year)),
                              Table(AdmitName(start_y_year, end_y_year)))
        /\ Table(LabelsName(start_y_year, end_y_year)) =
               LabelRows(Table(RecidivismName(start_y_year, end_y_year)))

\* C7 as stated: every call drops and recomputes its relations, and after the
\* whole notebook run the derived relations left in the store are the two
\* label tables and nothing else.
C7_AsStated ==
    /\ Returned => Recomputed
    /\ NotebookDone =>
          /\ DOMAIN temp = {}
          /\ (DOMAIN main) \ {"sentences"} =
                 {"recidivism_labels_2009_2013", "recidivism_labels_2014_2018"}

\* C7, amended: every call drops and recomputes its relations, and after the
\* whole notebook run the derived relations left in the store are the two
\* label tables and sentences_prep, each as its last computation left it; the
\* release_dates, last_exit, admit and recidivism relations are gone.
C7_WhatPersists ==
    /\ Returned => Recomputed
    /\ NotebookDone =>
          /\ DOMAIN temp = {}
          /\ (DOMAIN main) \ {"sentences"} =
                 {"sentences_prep", "recidivism_labels_2009_2013",
                  "recidivism_labels_2014_2018"}
          /\ main["sentences_prep"] = SentencesPrepRows(main["sentences"])
          /\ main["recidivism_labels_2009_2013"] = label_2009_2013
          /\ main["recidivism_labels_2014_2018"] = df_label

C7_Witness ==
    /\ NotebookDone
    /\ label_2009_2013 # <<>>
    /\ df_label # <<>>
    /\ label_2009_2013 # df_label

(***************************************************************************)
(* C8                                                                      *)
(***************************************************************************)
Repeated == Len(calls) >= 2 /\ calls[Len(calls) - 1] = Last

\* C8: a create_labels call that repeats the arguments of the call before it
\* runs through, returns the frame that call returned, and leaves the label
\* table with the contents that call left.
C8_Idempotent ==
    Repeated =>
        /\ ~raised
        /\ df_label = prevLabel
        /\ main[LabelsNameOf(Last)] = prevMain[LabelsNameOf(Last)]

C8_Witness ==
    /\ Repeated
    /\ ~raised
    /\ \E r, q \in Rows(df_label) : r.recidivism = 1 /\ q.recidivism = 0

(***************************************************************************)
(* C9                                                                      *)
(***************************************************************************)
\* create_labels('2008-12-31', '2009-01-01', '2013-12-31', conn)
HardCodedArgs ==
    [features_end     |-> Text_2008_12_31,
     prediction_start |-> Text_2009_01_01,
     prediction_end   |-> Text_2013_12_31]

AfterHardCodedCall == calls = <<HardCodedArgs>>

\* C9: called right after the hard-coded cells with their boundaries,
\* create_labels runs through and leaves every relation of the store, under
\* every name, as the hard-coded cells left it, and returns the frame the
\* cells read.
C9_SameAsHardCoded ==
    AfterHardCodedCall =>
        /\ ~raised
        /\ main = prevMain
        /\ pc = "open" => temp = prevTemp
        /\ df_label = label_2009_2013

C9_Witness ==
    /\ AfterHardCodedCall
    /\ pc = "open"
    /\ ~raised
    /\ DOMAIN temp = {"release_dates_2000_2008", "last_exit_2000_2008",
                      "admit_2009_2013", "recidivism_2009_2013"}
    /\ \E r, q \in Rows(df_label) : r.recidivism = 1 /\ q.recidivism = 0

(***************************************************************************)
(* C10                                                                     *)
(***************************************************************************)
ReturnedAfterRelease(id) ==
    \E r \in Rows(main["sentences_prep"]), e \in Rows(LastLastExit) :
        /\ r.inmate_doc_number = id
        /\ e.inmate_doc_number = id
        /\ r.sentence_component = 1
        /\ r.sentence_begin_date # NULL
        /\ DateLT(ParseDate(e.sentence_end_date), ParseDate(r.sentence_begin_date))

\* C10 as stated: after every create_labels call, every individual labelled 1
\* has a component-1 sentence that begins later than the end date of their
\* last_exit row.
C10_AsStated ==
    Returned =>
        \A l \in Rows(df_label) :
            l.recidivism = 1 => ReturnedAfterRelease(l.inmate_doc_number)

\* C10, amended: the same, for the calls whose features_end sorts before their
\* prediction_start in the store's text order (for boundaries written
\* YYYY-MM-DD: features_end is the earlier date).
C10_ReturnAfterRelease ==
    (Returned /\ TextLT(Last.features_end, Last.prediction_start)) =>
        \A l \in Rows(df_label) :
            l.recidivism = 1 => ReturnedAfterRelease(l.inmate_doc_number)

C10_Witness ==
    /\ Returned
    /\ TextLT(Last.features_end, Last.prediction_start)
    /\ \E l \in Rows(df_label) :
          l.recidivism = 1 /\ ReturnedAfterRelease(l.inmate_doc_number)

====
